---- MODULE Spec2Model ----
(***************************************************************************)
(* Model of run_experiments_no_original.py: the reachability pre-filter    *)
(* (is_reachable), the cost evaluation of one goal permutation             *)
(* (process_goal_permutation), the decoder (compute_goal_matrix_list) and  *)
(* the cross-entropy loop with its final report (cem_plan), run by the     *)
(* per-instance driver (__main__).                                         *)
(*                                                                         *)
(* Grid cells are pairs <<x, y>> with 0-based coordinates as in the        *)
(* source; my_map is a sequence of rows of booleans (TRUE = obstacle), so  *)
(* the source's my_map[nx][ny] is my_map[nx + 1][ny + 1] here.             *)
(***************************************************************************)
EXTENDS Integers, Sequences, FiniteSets, TLC

VARIABLES
    bfs,            \* is_reachable: one call's frame (my_map, start, goal, queue, visited, ret)
    inst,           \* the loaded instance: my_map, starts, goals
    solver,         \* the external solver (mock): goal permutation -> outcome
    params,         \* cem_plan's num_samples, num_elite, maxiter
    mean,           \* cem_plan: mean, as the componentwise sum of the elite vectors ...
    meanDen,        \* ... over the number of elite vectors (mean = mean / meanDen)
    cov,            \* cem_plan: the shape of cov (<<dim, dim>> or <<>> for a 0-d array)
    cost_track,     \* cem_plan: cost_track
    it,             \* cem_plan: number of completed generations
    lamda,          \* cem_plan: the generation's sample vectors
    goal_perm_list, \* cem_plan: the decoded permutations
    costs,          \* pool.starmap's result slots (Pending until the worker returns)
    calls,          \* solver invocations made by each evaluation of the generation
    elite_idxs,     \* cem_plan: elite_idxs of the last refit
    pc,             \* position of the driver
    error,          \* the exception the driver's except clause caught ("" if none)
    final,          \* cem_plan's final report: permuted, best_cost, result_note, calls
    records         \* lines appended to results_1.csv

vars == <<bfs, inst, solver, params, mean, meanDen, cov, cost_track, it, lamda,
          goal_perm_list, costs, calls, elite_idxs, pc, error, final, records>>

cemVars == <<inst, solver, params, mean, meanDen, cov, cost_track, it, lamda,
             goal_perm_list, costs, calls, elite_idxs, pc, error, final, records>>

----------------------------------------------------------------------------
(* Bounds *)
GridRows == 2
GridCols == 3
MaxVal == 1
MaxSamples == 2
MaxElite == 2
MaxIter == 2

(* Program constants *)
UNREACHABLE_COST == 9999
Inf == -1  \* encoding of float('inf'); ordered by FloatLeq, never by <=

----------------------------------------------------------------------------
(* is_reachable *)

directions == << <<0, 1>>, <<1, 0>>, <<-1, 0>>, <<0, -1>> >>

\* line 48: 0 <= nx < rows and 0 <= ny < cols and not my_map[nx][ny]
InBoundsFree(my_map, c) ==
    /\ 0 <= c[1] /\ c[1] < Len(my_map)
    /\ 0 <= c[2] /\ c[2] < Len(my_map[1])
    /\ ~ my_map[c[1] + 1][c[2] + 1]

\* lines 37-42: the early return and the initial queue / visited set
BfsStart(my_map, start, goal) ==
    IF start = goal
    THEN [my_map |-> my_map, start |-> start, goal |-> goal,
          queue |-> <<>>, visited |-> {}, ret |-> "True"]
    ELSE [my_map |-> my_map, start |-> start, goal |-> goal,
          queue |-> <<start>>, visited |-> {start}, ret |-> "running"]

\* BfsStep with the goal test of line 49 made before the tests of line 48
BfsStep_GoalBeforeFree(b) ==
    IF b.queue = <<>>
    THEN [b EXCEPT !.ret = "False"]
    ELSE LET curr == Head(b.queue)
             nbrs == [k \in 1..4 |-> <<curr[1] + directions[k][1], curr[2] + directions[k][2]>>]
             fresh == SelectSeq(nbrs, LAMBDA c : InBoundsFree(b.my_map, c) /\ c \notin b.visited)
         IN  IF \E k \in 1..4 : nbrs[k] = b.goal
             THEN [b EXCEPT !.ret = "True"]
             ELSE [b EXCEPT !.queue = Tail(b.queue) \o fresh,
                            !.visited = b.visited \cup {fresh[k] : k \in 1..Len(fresh)}]

\* lines 44-53: one iteration of the while loop (one popleft and its four
\* directions), or the return False when the queue is empty
BfsStep(b) ==
    IF b.queue = <<>>
    THEN [b EXCEPT !.ret = "False"]
    ELSE LET curr == Head(b.queue)
             nbrs == [k \in 1..4 |-> <<curr[1] + directions[k][1], curr[2] + directions[k][2]>>]
             fresh == SelectSeq(nbrs, LAMBDA c : InBoundsFree(b.my_map, c) /\ c \notin b.visited)
         IN  IF \E k \in 1..Len(fresh) : fresh[k] = b.goal
             THEN [b EXCEPT !.ret = "True"]
             ELSE [b EXCEPT !.queue = Tail(b.queue) \o fresh,
                            !.visited = b.visited \cup {fresh[k] : k \in 1..Len(fresh)}]

RECURSIVE BfsRun(_)
BfsRun(b) == IF b.ret # "running" THEN b ELSE BfsRun(BfsStep(b))

is_reachable(my_map, start, goal) == BfsRun(BfsStart(my_map, start, goal)).ret = "True"

----------------------------------------------------------------------------
(* numpy helpers *)

Abs(x) == IF x < 0 THEN -x ELSE x

Min(a, b) == IF a <= b THEN a ELSE b

Perms(n) == {p \in [1..n -> 1..n] : \A i, j \in 1..n : p[i] = p[j] => i = j}

\* Order of float values as numpy compares them: float('inf') is greater than
\* every finite value, finite values compare by value.
FloatLeq(a, b) == IF b = Inf THEN TRUE ELSE IF a = Inf THEN FALSE ELSE a <= b

\* np.argsort(x) with the default kind ('quicksort', documented as not
\* stable): an index order that sorts x, the order among equal keys being
\* left to the implementation.  The result is the set of orders it may return.
argsort(x) ==
    {p \in Perms(Len(x)) : \A k \in 1..(Len(x) - 1) : FloatLeq(x[p[k]], x[p[k + 1]])}

RECURSIVE SumOver(_, _)
SumOver(f, S) == IF S = {} THEN 0
                 ELSE LET e == CHOOSE e \in S : TRUE IN f[e] + SumOver(f, S \ {e})

\* min(costs) of line 86
RECURSIVE CostMin(_)
CostMin(cs) ==
    IF Len(cs) = 1 THEN cs[1]
    ELSE LET m == CostMin(Tail(cs)) IN IF FloatLeq(cs[1], m) THEN cs[1] ELSE m

\* np.cov(lamda[elite_idxs], rowvar=False), as the shape of a usable result.
\* np.cov ends in c.squeeze(): for dim = 1 the 1 x 1 covariance becomes a 0-d
\* array.  For a single elite row there is one observation only: depending on
\* the numpy version the row is read as one variable (0-d result) or the
\* result is a dim x dim array of nan, which the SVD inside
\* multivariate_normal rejects; both are written <<>> here.
np_cov(k, dim) == IF k > 1 /\ dim > 1 THEN <<dim, dim>> ELSE <<>>

\* np.random.multivariate_normal's argument check: cov must be 2 dimensional
\* and square, and mean and cov must have the same length.
CovAccepted(m, c) == Len(c) = 2 /\ c[1] = c[2] /\ c[1] = Len(m)

----------------------------------------------------------------------------
(* compute_goal_matrix_list and the final decode *)

AbsVec(l) == [i \in 1..Len(l) |-> Abs(l[i])]

\* decode by rank: slot k takes the goal whose index is the number of
\* components smaller in absolute value than component k
decode_ByRank(goals, l) ==
    {[k \in 1..Len(l) |->
        goals[1 + Cardinality({j \in 1..Len(l) : Abs(l[j]) < Abs(l[k])})]]}

\* [goals[idx] for idx in np.argsort(np.abs(l))]: the permutations one
\* vector may decode to (exactly one when no two |components| are tied)
decode(goals, l) ==
    {[k \in 1..Len(l) |-> goals[p[k]]] : p \in argsort(AbsVec(l))}

compute_goal_matrix_list(goals, lam) ==
    {gl \in [1..Len(lam) -> UNION {decode(goals, lam[i]) : i \in 1..Len(lam)}] :
        \A i \in 1..Len(lam) : gl[i] \in decode(goals, lam[i])}

----------------------------------------------------------------------------
(* Instances *)

OpenMap == << <<FALSE, FALSE, FALSE>>, <<FALSE, FALSE, FALSE>>, <<FALSE, FALSE, FALSE>> >>
WallMap == << <<FALSE, TRUE, FALSE>>, <<FALSE, TRUE, FALSE>>, <<FALSE, TRUE, FALSE>> >>

\* Scenario A: one agent on the empty 3x3 grid, (0,0) -> (2,2)
ScenarioA == [my_map |-> OpenMap, starts |-> << <<0, 0>> >>, goals |-> << <<2, 2>> >>]
\* Scenario B: start and goal separated by a full wall
ScenarioB == [my_map |-> WallMap, starts |-> << <<0, 0>> >>, goals |-> << <<2, 2>> >>]
\* Two agents: every assignment feasible / only the identity assignment feasible
TwoOpen == [my_map |-> OpenMap, starts |-> << <<0, 0>>, <<0, 2>> >>,
            goals |-> << <<2, 0>>, <<2, 2>> >>]
TwoWall == [my_map |-> WallMap, starts |-> << <<0, 0>>, <<0, 2>> >>,
            goals |-> << <<2, 0>>, <<2, 2>> >>]

Instances == {ScenarioA, ScenarioB, TwoOpen, TwoWall}

\* The (grid, start, goal) queries the instances can pose to is_reachable and
\* its answers to them, computed once
ReachQueries ==
    UNION {{<<I.my_map, I.starts[i], I.goals[j]>> : i, j \in 1..Len(I.goals)} : I \in Instances}
ReachAnswers == {q \in ReachQueries : is_reachable(q[1], q[2], q[3])}

----------------------------------------------------------------------------
(* process_goal_permutation *)

\* Outcomes of CBSSolver(...).find_solution(...): a path set with its
\* get_sum_of_cost, no solution (falsy paths), or a raised Exception.
Solved(c) == [kind |-> "paths", soc |-> c]
NoSolution == [kind |-> "none", soc |-> 0]
Failed == [kind |-> "raise", soc |-> 0]

AnyUnreachable(my_map, starts, perm) ==
    \E i \in 1..Len(starts) : <<my_map, starts[i], perm[i]>> \notin ReachAnswers

\* TryBody with the solver constructed and run before the reachability loop
TryBody_SolverFirst(goal_permutation, my_map, starts, slv) ==
    LET out == slv[goal_permutation]
    IN  IF out.kind = "raise" THEN [cost |-> 0, calls |-> 1, raised |-> TRUE]
        ELSE IF AnyUnreachable(my_map, starts, goal_permutation)
        THEN [cost |-> UNREACHABLE_COST, calls |-> 1, raised |-> FALSE]
        ELSE [cost |-> IF out.kind = "paths" THEN out.soc ELSE Inf,
              calls |-> 1, raised |-> FALSE]

\* Lines 58-63, the body of the try: the value returned, the number of solver
\* invocations made, and whether an Exception is raised instead of a return.
\* The disjoint flag is passed through to the solver unchanged and is part
\* of the mock slv.
TryBody(goal_permutation, my_map, starts, slv) ==
    IF AnyUnreachable(my_map, starts, goal_permutation)
    THEN [cost |-> UNREACHABLE_COST, calls |-> 0, raised |-> FALSE]
    ELSE LET out == slv[goal_permutation]
         IN  CASE out.kind = "paths" -> [cost |-> out.soc, calls |-> 1, raised |-> FALSE]
               [] out.kind = "none" -> [cost |-> Inf, calls |-> 1, raised |-> FALSE]
               [] out.kind = "raise" -> [cost |-> 0, calls |-> 1, raised |-> TRUE]

\* process_goal_permutation without the except clause
process_goal_permutation_NoExcept(goal_permutation, my_map, starts, slv) ==
    TryBody(goal_permutation, my_map, starts, slv)

\* Lines 56-66: the try with its except Exception returning float('inf')
process_goal_permutation(goal_permutation, my_map, starts, slv) ==
    LET b == TryBody(goal_permutation, my_map, starts, slv)
    IN  IF b.raised THEN [cost |-> Inf, calls |-> b.calls, raised |-> FALSE] ELSE b

----------------------------------------------------------------------------
(* Solver mocks and parameters *)

GoalPerms(goals) == {[k \in 1..Len(goals) |-> goals[p[k]]] : p \in Perms(Len(goals))}

\* Solver mocks.  PathCost is Scenario A's path length; BigCost is a sum of
\* costs above UNREACHABLE_COST.  AssignmentMock prices the assignment as
\* given in the instance file at PathCost and every other one at BigCost
\* (Scenario C's shape), ReverseMock the other way round.
PathCost == 4
BigCost == 12000
ConstMock(goals, out) == [p \in GoalPerms(goals) |-> out]
AssignmentMock(goals) ==
    [p \in GoalPerms(goals) |-> IF p = goals THEN Solved(PathCost) ELSE Solved(BigCost)]
ReverseMock(goals) ==
    [p \in GoalPerms(goals) |-> IF p = goals THEN Solved(BigCost) ELSE Solved(PathCost)]
Mocks(goals) ==
    {AssignmentMock(goals), ReverseMock(goals),
     ConstMock(goals, NoSolution), ConstMock(goals, Failed)}

\* Sample components: small integers stand for the reals that
\* np.random.multivariate_normal draws (negative, zero, positive, with and
\* without ties in absolute value).
Vals == (0 - MaxVal)..MaxVal
Vectors(dim) == [1..dim -> Vals]

Pending == -2
NoReport == [permuted |-> <<>>, best_cost |-> 0, result_note |-> "none", calls |-> 0]
IdleBfs == [my_map |-> <<>>, start |-> <<>>, goal |-> <<>>,
            queue |-> <<>>, visited |-> {}, ret |-> "idle"]

dim == Len(inst.goals)

----------------------------------------------------------------------------
(* cem_plan under the driver *)

\* lines 73-77 after a successful import_mapf_instance (lines 150-154).
\* num_samples, num_elite and maxiter range over small values in place of
\* the defaults 100, 10 and 20.
CemInit ==
    /\ inst \in Instances
    /\ solver \in Mocks(inst.goals)
    /\ params \in [num_samples : 1..MaxSamples, num_elite : 1..MaxElite, maxiter : 0..MaxIter]
    /\ mean = [i \in 1..Len(inst.goals) |-> 0]
    /\ meanDen = 1
    /\ cov = <<Len(inst.goals), Len(inst.goals)>>
    /\ cost_track = <<>>
    /\ it = 0
    /\ lamda = <<>>
    /\ goal_perm_list = <<>>
    /\ costs = <<>>
    /\ calls = <<>>
    /\ elite_idxs = <<>>
    /\ pc = "loop"
    /\ error = ""
    /\ final = NoReport
    /\ records = <<>>

Init == bfs = IdleBfs /\ CemInit

\* lines 80-84: draw the samples, decode them, hand the batch to the pool.
\* Every vector of Vectors(dim) may be drawn in every generation: the support
\* of Normal(mean, cov) is over-approximated (a singular cov confines the
\* real samples to a subspace), which adds behaviours and removes none.
Sample ==
    /\ pc = "loop"
    /\ it < params.maxiter
    /\ CovAccepted(mean, cov)
    /\ \E lam \in [1..params.num_samples -> Vectors(dim)] :
         \E gl \in compute_goal_matrix_list(inst.goals, lam) :
            /\ lamda' = lam
            /\ goal_perm_list' = gl
    /\ costs' = [i \in 1..params.num_samples |-> Pending]
    /\ calls' = [i \in 1..params.num_samples |-> 0]
    /\ pc' = "pool"
    /\ UNCHANGED <<bfs, inst, solver, params, mean, meanDen, cov, cost_track, it,
                   elite_idxs, error, final, records>>

\* line 80 raising ValueError (cov is not 2 dimensional and square); nothing
\* in cem_plan catches it, the driver's except of lines 155-156 prints it
SampleRaises ==
    /\ pc = "loop"
    /\ it < params.maxiter
    /\ ~ CovAccepted(mean, cov)
    /\ pc' = "failed"
    /\ error' = "ValueError"
    /\ UNCHANGED <<bfs, inst, solver, params, mean, meanDen, cov, cost_track, it, lamda,
                   goal_perm_list, costs, calls, elite_idxs, final, records>>

\* WorkerReturn with the results collected in completion order
WorkerReturn_CompletionOrder(i) ==
    /\ pc = "pool"
    /\ costs[i] = Pending
    /\ LET r == process_goal_permutation(goal_perm_list[i], inst.my_map, inst.starts, solver)
           j == CHOOSE j \in 1..Len(costs) :
                    costs[j] = Pending /\ \A h \in 1..(j - 1) : costs[h] # Pending
       IN  /\ costs' = [costs EXCEPT ![j] = r.cost]
           /\ calls' = [calls EXCEPT ![j] = r.calls]
           /\ UNCHANGED <<pc, error>>
    /\ UNCHANGED <<bfs, inst, solver, params, mean, meanDen, cov, cost_track, it, lamda,
                   goal_perm_list, elite_idxs, final, records>>

\* One pool worker finishing task i.  starmap stores the returned value at
\* index i; an exception raised by the task is re-raised by starmap in the
\* driver, where only the except of lines 155-156 catches it.
WorkerReturn(i) ==
    /\ pc = "pool"
    /\ costs[i] = Pending
    /\ LET r == process_goal_permutation(goal_perm_list[i], inst.my_map, inst.starts, solver)
       IN  IF r.raised
           THEN /\ pc' = "failed"
                /\ error' = "worker"
                /\ UNCHANGED <<costs, calls>>
           ELSE /\ costs' = [costs EXCEPT ![i] = r.cost]
                /\ calls' = [calls EXCEPT ![i] = r.calls]
                /\ UNCHANGED <<pc, error>>
    /\ UNCHANGED <<bfs, inst, solver, params, mean, meanDen, cov, cost_track, it, lamda,
                   goal_perm_list, elite_idxs, final, records>>

\* EliteChoices taking the other end of the sorted order
EliteChoices_Tail(cs, num_elite) ==
    {SubSeq(p, Len(cs) - Min(num_elite, Len(cs)) + 1, Len(cs)) : p \in argsort(cs)}

\* np.argsort(costs)[:num_elite]
EliteChoices(cs, num_elite) ==
    {SubSeq(p, 1, Min(num_elite, Len(cs))) : p \in argsort(cs)}

\* lines 85-88, once starmap has returned the whole list
Refit ==
    /\ pc = "pool"
    /\ \A i \in 1..params.num_samples : costs[i] # Pending
    /\ \E el \in EliteChoices(costs, params.num_elite) :
         /\ elite_idxs' = el
         /\ mean' = [c \in 1..dim |->
                       SumOver([e \in 1..Len(lamda) |-> lamda[e][c]],
                               {el[k] : k \in 1..Len(el)})]
         /\ meanDen' = Len(el)
         /\ cov' = np_cov(Len(el), dim)
    /\ cost_track' = Append(cost_track, CostMin(costs))
    /\ it' = it + 1
    /\ pc' = "loop"
    /\ UNCHANGED <<bfs, inst, solver, params, lamda, goal_perm_list, costs, calls,
                   error, final, records>>

\* FinalReport pricing a missing or failed solution as the evaluation does
FinalReport_InfCost(permuted, my_map, starts, slv) ==
    IF AnyUnreachable(my_map, starts, permuted)
    THEN [permuted |-> permuted, best_cost |-> UNREACHABLE_COST,
          result_note |-> "INF-UNREACHABLE", calls |-> 0]
    ELSE LET out == slv[permuted]
         IN  CASE out.kind = "paths" ->
                    [permuted |-> permuted, best_cost |-> out.soc,
                     result_note |-> "", calls |-> 1]
               [] out.kind = "none" ->
                    [permuted |-> permuted, best_cost |-> Inf,
                     result_note |-> "INF-NOPATH", calls |-> 1]
               [] out.kind = "raise" ->
                    [permuted |-> permuted, best_cost |-> Inf,
                     result_note |-> "ERROR", calls |-> 1]

\* lines 95-111: the feasibility check and the last solver call
FinalReport(permuted, my_map, starts, slv) ==
    IF AnyUnreachable(my_map, starts, permuted)
    THEN [permuted |-> permuted, best_cost |-> UNREACHABLE_COST,
          result_note |-> "INF-UNREACHABLE", calls |-> 0]
    ELSE LET out == slv[permuted]
         IN  CASE out.kind = "paths" ->
                    [permuted |-> permuted, best_cost |-> out.soc,
                     result_note |-> "", calls |-> 1]
               [] out.kind = "none" ->
                    [permuted |-> permuted, best_cost |-> UNREACHABLE_COST,
                     result_note |-> "INF-NOPATH", calls |-> 1]
               [] out.kind = "raise" ->
                    [permuted |-> permuted, best_cost |-> UNREACHABLE_COST,
                     result_note |-> "ERROR", calls |-> 1]

\* lines 90-134 after the loop: decode the mean, report, append the csv line
Finish ==
    /\ pc = "loop"
    /\ it = params.maxiter
    /\ \E permuted \in decode(inst.goals, mean) :
         LET rep == FinalReport(permuted, inst.my_map, inst.starts, solver)
         IN  /\ final' = rep
             /\ records' = Append(records, [best_cost |-> rep.best_cost,
                                            goal_perm |-> rep.permuted,
                                            result_note |-> rep.result_note])
    /\ pc' = "done"
    /\ UNCHANGED <<bfs, inst, solver, params, mean, meanDen, cov, cost_track, it, lamda,
                   goal_perm_list, costs, calls, elite_idxs, error>>

Next ==
    \/ Sample
    \/ SampleRaises
    \/ \E i \in 1..MaxSamples : i <= params.num_samples /\ WorkerReturn(i)
    \/ Refit
    \/ Finish

Spec == Init /\ [][Next]_vars

----------------------------------------------------------------------------
(* is_reachable run step by step on every small grid *)

Grids == [1..GridRows -> [1..GridCols -> BOOLEAN]]
Cells == (0..(GridRows - 1)) \X (0..(GridCols - 1))

IdleCem ==
    /\ inst = [my_map |-> <<>>, starts |-> <<>>, goals |-> <<>>]
    /\ solver = <<>>
    /\ params = [num_samples |-> 0, num_elite |-> 0, maxiter |-> 0]
    /\ mean = <<>>
    /\ meanDen = 1
    /\ cov = <<>>
    /\ cost_track = <<>>
    /\ it = 0
    /\ lamda = <<>>
    /\ goal_perm_list = <<>>
    /\ costs = <<>>
    /\ calls = <<>>
    /\ elite_idxs = <<>>
    /\ pc = "idle"
    /\ error = ""
    /\ final = NoReport
    /\ records = <<>>

InitReach ==
    /\ IdleCem
    /\ \E g \in Grids, s \in Cells, t \in Cells : bfs = BfsStart(g, s, t)

\* one iteration of the while loop of lines 44-53
ReachStep ==
    /\ bfs.ret = "running"
    /\ bfs' = BfsStep(bfs)
    /\ UNCHANGED cemVars

NextReach == ReachStep

SpecReach == InitReach /\ [][NextReach]_vars /\ WF_vars(ReachStep)

----------------------------------------------------------------------------
(* Reference notions used by the properties *)

\* 4-connected reachability, as a least fixed point: the cells that can be
\* entered from start by moves between adjacent cells, every cell moved into
\* being inside the grid and free
RefFree(m, c) ==
    /\ c[1] \in 0..(Len(m) - 1)
    /\ c[2] \in 0..(Len(m[1]) - 1)
    /\ m[c[1] + 1][c[2] + 1] = FALSE

RefAdjacent(a, c) == Abs(a[1] - c[1]) + Abs(a[2] - c[2]) = 1

RECURSIVE RefGrow(_, _)
RefGrow(m, R) ==
    LET N == R \cup {c \in (0..(Len(m) - 1)) \X (0..(Len(m[1]) - 1)) :
                        RefFree(m, c) /\ \E r \in R : RefAdjacent(r, c)}
    IN  IF N = R THEN R ELSE RefGrow(m, N)

RefReachable(m, start, goal) == start = goal \/ goal \in RefGrow(m, {start})

RefAnswers == {q \in ReachQueries : RefReachable(q[1], q[2], q[3])}

RefAnyUnreachable(perm) ==
    \E k \in 1..Len(inst.starts) : <<inst.my_map, inst.starts[k], perm[k]>> \notin RefAnswers

IsCost(c) == c = Inf \/ c \in Nat

\* the cost one evaluation of perm is specified to return
ExpectedCost(perm) ==
    IF RefAnyUnreachable(perm) THEN UNREACHABLE_COST
    ELSE IF solver[perm].kind = "paths" THEN solver[perm].soc ELSE Inf

Returned(i) == i \in DOMAIN costs /\ costs[i] # Pending

EliteSet == {elite_idxs[k] : k \in 1..Len(elite_idxs)}

\* costs and elite_idxs both belong to the last completed generation
AfterRefit == it >= 1 /\ pc \in {"loop", "done", "failed"}

RanksNoWorse(a, b) == b = Inf \/ (a # Inf /\ a <= b)

Notes == {"", "INF-UNREACHABLE", "INF-NOPATH", "ERROR"}

\* perm has one slot per agent and holds every goal of the instance exactly once
IsGoalBijection(perm) ==
    /\ Len(perm) = Len(inst.goals)
    /\ \A j \in 1..Len(inst.goals) :
          Cardinality({k \in 1..Len(perm) : perm[k] = inst.goals[j]}) = 1

----------------------------------------------------------------------------
(* Properties *)

\* C1: an evaluation of a permutation with at least one unreachable
\* (start_i, goal_i) pair returns exactly UNREACHABLE_COST = 9999 and makes
\* no solver invocation.
C1_UnreachableSkipsSolver ==
    \A i \in DOMAIN costs :
        (Returned(i) /\ RefAnyUnreachable(goal_perm_list[i]))
            => (costs[i] = UNREACHABLE_COST /\ calls[i] = 0)

C1_Witness ==
    \E i \in DOMAIN costs :
        /\ Returned(i)
        /\ RefAnyUnreachable(goal_perm_list[i])
        /\ costs[i] = 9999
        /\ calls[i] = 0

\* C2: every evaluation invokes the solver at most once and no exception
\* leaves it: it returns a numeric cost, the sum of costs when the solver
\* returns paths, +infinity when the solver reports no solution and +infinity
\* when the solver raises an Exception.
C2_EvaluationBoundary ==
    /\ error # "worker"
    /\ \A i \in DOMAIN costs :
          Returned(i) =>
             /\ calls[i] \in {0, 1}
             /\ IsCost(costs[i])
             /\ calls[i] = 1 =>
                   LET out == solver[goal_perm_list[i]]
                   IN  /\ out.kind = "paths" => costs[i] = out.soc
                       /\ out.kind = "none" => costs[i] = Inf
                       /\ out.kind = "raise" => costs[i] = Inf

C2_Witness ==
    \E i \in DOMAIN costs :
        /\ Returned(i)
        /\ calls[i] = 1
        /\ solver[goal_perm_list[i]].kind = "raise"
        /\ costs[i] = Inf

\* C3: at DONE all maxiter generations have run, the reported permutation is
\* the goals ordered by ascending |mean| (a decode of the final mean), and the
\* reported (cost, note) is (9999, "INF-UNREACHABLE") with no solver call when
\* a pair of it is unreachable, otherwise after exactly one solver call
\* (9999, "INF-NOPATH") for no solution, (9999, "ERROR") for a raised
\* Exception and (sum of costs, "") for paths; the csv line carries them.
C3_FinalReport ==
    pc = "done" =>
        /\ it = params.maxiter
        /\ \E p \in Perms(Len(inst.goals)) :
              /\ final.permuted = [k \in 1..Len(inst.goals) |-> inst.goals[p[k]]]
              /\ \A k \in 1..(Len(inst.goals) - 1) : Abs(mean[p[k]]) <= Abs(mean[p[k + 1]])
        /\ IF RefAnyUnreachable(final.permuted)
           THEN /\ final.best_cost = 9999
                /\ final.result_note = "INF-UNREACHABLE"
                /\ final.calls = 0
           ELSE /\ final.calls = 1
                /\ LET out == solver[final.permuted]
                   IN  /\ out.kind = "none" =>
                             (final.best_cost = 9999 /\ final.result_note = "INF-NOPATH")
                       /\ out.kind = "raise" =>
                             (final.best_cost = 9999 /\ final.result_note = "ERROR")
                       /\ out.kind = "paths" =>
                             (final.best_cost = out.soc /\ final.result_note = "")
        /\ records = << [best_cost |-> final.best_cost, goal_perm |-> final.permuted,
                         result_note |-> final.result_note] >>

\* DONE after at least one generation, with a reported permutation that no
\* sample of the last generation decoded to, priced by a failing solver
C3_Witness ==
    /\ pc = "done"
    /\ it >= 1
    /\ \A i \in DOMAIN goal_perm_list : goal_perm_list[i] # final.permuted
    /\ final.result_note = "ERROR"

\* C4 (as claimed): a run over a loaded instance ends with exactly one
\* persisted record carrying one of the four outcome notes.
C4_OneRecordPerInstance ==
    pc \in {"done", "failed"} =>
        (Len(records) = 1 /\ records[1].result_note \in Notes)

\* C5: mean, cov and the elite are written only by the refit step that follows
\* the join: whenever a step changes them (or completes a generation), the
\* pool had returned all num_samples results, every result sits at the index
\* of the sample whose decoded permutation it prices, and exactly one
\* generation is counted.
C5_JoinThenRefit ==
    [][(mean' # mean \/ meanDen' # meanDen \/ cov' # cov \/ it' # it
            \/ elite_idxs' # elite_idxs)
        => /\ pc = "pool"
           /\ Len(costs) = params.num_samples
           /\ \A i \in 1..params.num_samples :
                 /\ costs[i] # Pending
                 /\ goal_perm_list[i] \in decode(inst.goals, lamda[i])
                 /\ costs[i] = ExpectedCost(goal_perm_list[i])
           /\ it' = it + 1]_vars

\* the second task has returned while the first, of a different cost, is
\* still running
C5_Witness ==
    /\ pc = "pool"
    /\ Len(costs) >= 2
    /\ costs[1] = Pending
    /\ costs[2] # Pending
    /\ costs[2] # ExpectedCost(goal_perm_list[1])

\* C6 (as claimed): Scenario A with a solver that returns a path of length 4
\* never fails and, at DONE, has run all maxiter generations and reports
\* cost 4 with the success note.
C6_ScenarioA ==
    (inst = ScenarioA /\ solver[inst.goals] = Solved(PathCost)) =>
        /\ pc # "failed"
        /\ pc = "done" =>
              /\ Len(cost_track) = params.maxiter
              /\ final.best_cost = PathCost
              /\ final.result_note = ""

\* C7: every call of is_reachable returns, and it returns True exactly when
\* start = goal or goal can be reached from start by 4-connected moves into
\* in-bounds free cells.
C7_Reachability ==
    /\ [](bfs.ret \in {"True", "False"} =>
            ((bfs.ret = "True") <=> RefReachable(bfs.my_map, bfs.start, bfs.goal)))
    /\ <>(bfs.ret \in {"True", "False"})

\* a free goal that a search from a free start, after visiting other cells,
\* reports unreachable
C7_Witness ==
    /\ bfs.ret = "False"
    /\ RefFree(bfs.my_map, bfs.goal)
    /\ RefFree(bfs.my_map, bfs.start)
    /\ Cardinality(bfs.visited) >= 2

\* C8: every decoded permutation (each sample's and the final one) has length
\* N and contains every goal exactly once; this holds for every vector, tied
\* |components| or not.
C8_DecodeBijection ==
    /\ \A i \in DOMAIN goal_perm_list : IsGoalBijection(goal_perm_list[i])
    /\ pc = "done" => IsGoalBijection(final.permuted)

\* a vector without tied |components| decoded to a permutation other than the
\* order of the instance file
C8_Witness ==
    \E i \in DOMAIN goal_perm_list :
        /\ Len(lamda[i]) = 2
        /\ Abs(lamda[i][1]) # Abs(lamda[i][2])
        /\ goal_perm_list[i] # inst.goals

\* C9: after a refit the elite has exactly min(num_elite, num_samples)
\* distinct members and every elite cost ranks no worse than every non-elite
\* cost of the generation, +infinity ranking worst and 9999 by its value.
C9_EliteLowest ==
    AfterRefit =>
        /\ Len(elite_idxs) = Min(params.num_elite, params.num_samples)
        /\ Cardinality(EliteSet) = Len(elite_idxs)
        /\ EliteSet \subseteq 1..params.num_samples
        /\ \A e \in EliteSet : \A j \in (1..params.num_samples) \ EliteSet :
              RanksNoWorse(costs[e], costs[j])

C9_Witness ==
    /\ AfterRefit
    /\ params.num_elite < params.num_samples
    /\ costs[elite_idxs[1]] = 9999
    /\ \E j \in 1..params.num_samples : costs[j] = Inf

\* C10 (as claimed): of two samples with equal cost, the later one is in the
\* elite only if the earlier one is.
C10_StableTieBreak ==
    AfterRefit =>
        \A i, j \in 1..params.num_samples :
            (i < j /\ costs[i] = costs[j] /\ j \in EliteSet) => i \in EliteSet

====
